---- MODULE Spec2Model ----
(***************************************************************************)
(* Seinfeld script generator: the retrieval tool (SeinfeldRAGTool), the    *)
(* five-task sequential crew (SeinfeldScriptCrew, run_crew) and the CLI    *)
(* entry point (main).                                                     *)
(*                                                                         *)
(* A Python str is a sequence of one-character strings.  The fixed text of *)
(* a template or a label is one element naming that text, so that          *)
(* str.replace, str.split and str.strip are computed as Python does.       *)
(* An Optional value is a record [some, v].                                *)
(***************************************************************************)
EXTENDS Integers, Sequences, FiniteSets, TLC

\* ------------------------------------------------------------------ bounds
MaxQueryLen == 3
MaxThemeLen == 2
NumSlack == 1
MaxHits == 2

\* ------------------------------------------------------- program constants
MinResults == 1
MaxResults == 10
DefaultNumResults == 5

\* ------------------------------------------------------------ Python values
None == [some |-> FALSE, v |-> <<>>]
Some(x) == [some |-> TRUE, v |-> x]

Chars == {" ", "j"}
IsSpace(c) == c = " "
StrsUpTo(chars, n) == UNION {[1..k -> chars] : k \in 0..n}

Return(text) == [kind |-> "return", value |-> text, exc |-> "none"]
Raise(e) == [kind |-> "raise", value |-> <<>>, exc |-> e]

\* str.lstrip / str.rstrip / str.strip with no argument
RECURSIVE LStrip(_)
LStrip(s) == IF s = <<>> THEN <<>>
             ELSE IF IsSpace(Head(s)) THEN LStrip(Tail(s)) ELSE s
RECURSIVE RStrip(_)
RStrip(s) == IF s = <<>> THEN <<>>
             ELSE IF IsSpace(s[Len(s)]) THEN RStrip(SubSeq(s, 1, Len(s) - 1)) ELSE s
Strip(s) == RStrip(LStrip(s))

\* the leading run of non-whitespace characters of s
RECURSIVE TakeToken(_)
TakeToken(s) == IF s = <<>> \/ IsSpace(Head(s)) THEN <<>>
                ELSE <<Head(s)>> \o TakeToken(Tail(s))
\* str.split() with no argument: the whitespace-delimited tokens, none empty
RECURSIVE Split(_)
Split(s) == LET t == LStrip(s) IN
            IF t = <<>> THEN <<>>
            ELSE <<TakeToken(t)>> \o Split(SubSeq(t, Len(TakeToken(t)) + 1, Len(t)))

\* str.replace(old, new) where old is a single element of the text
RECURSIVE Replace(_, _, _)
Replace(s, old, new) == IF s = <<>> THEN <<>>
                        ELSE (IF Head(s) = old THEN new ELSE <<Head(s)>>)
                             \o Replace(Tail(s), old, new)

\* ------------------------------------------------------------ SeinfeldRAGTool
DemoHeader == "## Seinfeld Script Search Results (Demo Mode)"
ResultsHeader == "## Seinfeld Script Search Results"
ExampleHead == "### Example"

\* demo_dialogues["default"]: the fixed text, with its placeholders in place
DemoTemplate ==
    << DemoHeader,
       ExampleHead, "JERRY: See, that's the thing about ", "[topic]",
           ". Everyone acts like it's normal ... It's ", "[topic]", "! ...",
       ExampleHead, "GEORGE: ... I think this whole ", "[topic]",
           " thing is a conspiracy. ... KRAMER: ...", "[Topic]", "! It's all connected!",
       ExampleHead, "KRAMER: ... I've figured out the whole ", "[topic]",
           " situation. ...",
       "Use these examples as templates" >>

\* the number of reference passages a response text carries
PassageCount(text) == Cardinality({i \in DOMAIN text : text[i] = ExampleHead})

\* The steps of the try block of _initialize_connections, in order; setup is
\* the step that raises, or "none" when every step succeeds.
SetupSteps == << "import", "auth", "cluster", "wait_until_ready", "bucket",
                 "scope", "collection", "embeddings", "vector_store" >>
SetupOutcomes == {SetupSteps[i] : i \in DOMAIN SetupSteps} \cup {"none"}
StepIndex(step) == CHOOSE i \in DOMAIN SetupSteps : SetupSteps[i] = step
\* step was completed when the named setup outcome happened
Done(step, setup) == setup = "none" \/ StepIndex(step) < StepIndex(setup)
Handle(step, setup) == IF Done(step, setup) THEN Some(<<step>>) ELSE None

\* the private attributes as declared: all None
ToolDefaults == [ _cluster |-> None, _bucket |-> None, _scope |-> None,
                  _collection |-> None, _openai_client |-> None,
                  _embeddings |-> None, _vector_store |-> None ]

\* _initialize_connections: every exception is caught and printed; the
\* attributes assigned before the failing step keep their values.
\* _openai_client is never assigned.
InitializeConnections(self, setup) ==
    [ self EXCEPT !._cluster = Handle("cluster", setup),
                  !._bucket = Handle("bucket", setup),
                  !._scope = Handle("scope", setup),
                  !._collection = Handle("collection", setup),
                  !._embeddings = Handle("embeddings", setup),
                  !._vector_store = Handle("vector_store", setup) ]

\* SeinfeldRAGTool.__init__
NewTool(setup) == InitializeConnections(ToolDefaults, setup)

\* What the index answers to a search: the call raises (error), or the index
\* holds hits matches for the query.
BackendReplies == {[error |-> TRUE, hits |-> 0]}
                  \cup {[error |-> FALSE, hits |-> h] : h \in 0..MaxHits}
Min(a, b) == IF a < b THEN a ELSE b
\* similarity_search(query, k): the k best matches, best first
SimilaritySearch(query, k, backend) ==
    [i \in 1..Min(k, backend.hits) |->
        [text |-> <<"dialogue">>, score |-> MaxHits + 1 - i, metadata |-> <<>>]]

\* _vector_search: any exception (a None _vector_store included) gives []
VectorSearch(self, query, num_results, backend) ==
    IF ~self._vector_store.some \/ backend.error \/ num_results < 1
    THEN <<>>
    ELSE SimilaritySearch(query, num_results, backend)

RECURSIVE FormatExamples(_)
FormatExamples(results) ==
    IF results = <<>> THEN <<>>
    ELSE << ExampleHead >>
         \o (IF Head(results).text # <<>>
             THEN <<"**Dialogue:**">> \o Head(results).text ELSE <<>>)
         \o << "**Relevance Score:**", "---" >>
         \o FormatExamples(Tail(results))

\* _format_results
FormatResults(results, query) ==
    << ResultsHeader, "**Query:** " >> \o query \o << "**Found n relevant examples:**" >>
    \o FormatExamples(results)

\* _get_demo_response: query.split()[0] if query else "this"
GetDemoResponse(query) ==
    IF query = <<>> THEN Return(Replace(DemoTemplate, "[topic]", <<"this">>))
    ELSE IF Split(query) = <<>> THEN Raise("IndexError")
    ELSE Return(Replace(DemoTemplate, "[topic]", Split(query)[1]))

\* _run
Run(self, query, num_results, backend) ==
    IF ~self._cluster.some \/ ~self._openai_client.some
    THEN GetDemoResponse(query)
    ELSE LET results == VectorSearch(self, query, num_results, backend) IN
         IF results = <<>> THEN GetDemoResponse(query)
         ELSE Return(FormatResults(results, query))

\* a schema that clamps num_results into 1..10 instead of validating it
SeinfeldSearchInputClamping(query, num_results) ==
    [ok |-> TRUE, query |-> query,
     num_results |-> IF num_results < MinResults THEN MinResults
                     ELSE IF num_results > MaxResults THEN MaxResults ELSE num_results]

\* SeinfeldSearchInput: num_results is validated with ge=1, le=10
SeinfeldSearchInput(query, num_results) ==
    IF num_results >= MinResults /\ num_results <= MaxResults
    THEN [ok |-> TRUE, query |-> query, num_results |-> num_results]
    ELSE [ok |-> FALSE, query |-> query, num_results |-> num_results]

\* the tool invoked by an agent: the arguments pass args_schema, then _run
Invoke(self, query, num_results, backend) ==
    LET args == SeinfeldSearchInput(query, num_results) IN
    IF ~args.ok THEN Raise("ValidationError")
    ELSE Run(self, args.query, args.num_results, backend)

Queries == StrsUpTo(Chars, MaxQueryLen)
Nums == (MinResults - NumSlack)..(MaxResults + NumSlack)
NoCall == [via |-> "none", query |-> <<>>, num_results |-> 0,
           backend |-> [error |-> FALSE, hits |-> 0], out |-> Raise("none")]

\* ------------------------------------------------------- SeinfeldScriptCrew
\* the @task methods with two of them declared in the other order
TasksSwapped == << "analyze_theme", "design_plot_structure", "write_script_scenes",
                   "develop_character_voices", "review_and_polish" >>

\* self.tasks: the @task methods in the order they are declared
Tasks == << "analyze_theme", "design_plot_structure", "develop_character_voices",
            "write_script_scenes", "review_and_polish" >>

OutputFile == "output/seinfeld_script.md"
Paths == {OutputFile, "custom.md"}
\* Task(output_file=...): only review_and_polish has one
TaskOutputFile(name) == IF name = "review_and_polish" THEN Some(<<OutputFile>>) ELSE None

\* Process.sequential: the next task is the first one without an output
NextTaskIndex(outputs) == Len(outputs) + 1

\* a result that is the raw output of the task before the last
CrewOutputRawPrevious(outputs) == outputs[Len(outputs) - 1].content

\* result.raw of kickoff: the raw output of the last task
CrewOutputRaw(outputs) == outputs[Len(outputs)].content

\* what the text-generation backend may answer (possibly nothing)
LLMOutputs == {<<>>, <<"text">>}
\* exceptions a task may end with
StageCauses == {"LLMError"}

Themes == StrsUpTo(Chars, MaxThemeLen)
OptThemes == {None} \cup {Some(t) : t \in Themes}

\* main, lines 160-169: the theme main goes on with; None when it exits
ResolveTheme(argTheme, interactive, inputLine) ==
    IF interactive \/ ~argTheme.some \/ argTheme.v = <<>>
    THEN (IF Strip(inputLine) = <<>> THEN None ELSE Some(Strip(inputLine)))
    ELSE argTheme

\* main, lines 191-193: the file main writes
SavedScript(t, result) == << "# Seinfeld Episode: " >> \o t \o << "\n\n" >> \o result

\* the run_crew_async calls in flight at the same time
RunIds == {"run1", "run2"}
\* a run_crew_async call that has not been made
NoRun == [pc |-> "idle", theme |-> <<>>, tool |-> None, started |-> <<>>,
          outputs |-> <<>>, stage |-> "idle", result |-> None]

\* --------------------------------------------------------------------- state
VARIABLES
    tool,       \* Optional SeinfeldRAGTool instance (its private attributes)
    setup,      \* what happened in _initialize_connections of that instance
    connects,   \* number of times _initialize_connections has run
    index,      \* what the search index answers at present
    lastCall,   \* the retrieval call in progress and what it gives its caller
    pc,         \* where the program is: idle, main_ready, kickoff, returned,
                \* raised, done, exited
    caller,     \* who called run_crew: "none", "main" or "api"
    theme,      \* Optional theme of the run
    started,    \* the tasks started so far, each with the outputs it was given
    results,    \* the task outputs so far: [stage_name, content]
    stage,      \* the current task: idle, running or failed
    cause,      \* the exception that ended the run, or "none"
    returned,   \* Optional value run_crew returned
    files,      \* Optional content of each file
    argsOutput, \* args.output of main
    exitCode,   \* "running", or the exit status of main
    memo,       \* Optional [query, out]: a response a caller of the tool kept
    runs,       \* the concurrent runs: what each run_crew_async call has done
    writers     \* for each file, the concurrent runs that have written it

toolVars == << tool, setup, connects, index, lastCall >>
runVars == << pc, caller, theme, started, results, stage, cause,
              returned, files, argsOutput, exitCode >>
auxVars == << memo, runs, writers >>
vars == << tool, setup, connects, index, lastCall, pc, caller, theme, started,
           results, stage, cause, returned, files, argsOutput, exitCode,
           memo, runs, writers >>

InitRun ==
    /\ pc = "idle"
    /\ caller = "none"
    /\ theme = None
    /\ started = <<>>
    /\ results = <<>>
    /\ stage = "idle"
    /\ cause = "none"
    /\ returned = None
    /\ files = [p \in Paths |-> None]
    /\ argsOutput = OutputFile
    /\ exitCode = "running"
    /\ memo = None
    /\ runs = [r \in RunIds |-> NoRun]
    /\ writers = [p \in Paths |-> {}]

InitTool ==
    /\ tool = None
    /\ setup = "none"
    /\ connects = 0
    /\ index \in BackendReplies
    /\ lastCall = NoCall
    /\ InitRun

Init ==
    /\ InitTool
    /\ index = [error |-> FALSE, hits |-> MaxHits]

\* ------------------------------------------------------- the tool on its own
\* SeinfeldRAGTool(): the only place the connection is set up
Construct(s) ==
    /\ ~tool.some
    /\ tool' = Some(NewTool(s))
    /\ setup' = s
    /\ connects' = connects + 1
    /\ UNCHANGED << index, lastCall >>
    /\ UNCHANGED runVars
    /\ UNCHANGED auxVars

\* between calls the index gains or loses matches, or starts or stops failing
IndexChange(b) ==
    /\ lastCall = NoCall
    /\ index' = b
    /\ index' # index
    /\ UNCHANGED << tool, setup, connects, lastCall >>
    /\ UNCHANGED runVars
    /\ UNCHANGED auxVars

\* an agent uses the tool: schema validation, then _run
ToolCall(q, n) ==
    /\ tool.some
    /\ lastCall = NoCall
    /\ lastCall' = [via |-> "schema", query |-> q, num_results |-> n, backend |-> index,
                    out |-> Invoke(tool.v, q, n, index)]
    /\ UNCHANGED << tool, setup, connects, index >>
    /\ UNCHANGED runVars
    /\ UNCHANGED auxVars

\* _run called directly
RunDirect(q, n) ==
    /\ tool.some
    /\ lastCall = NoCall
    /\ lastCall' = [via |-> "_run", query |-> q, num_results |-> n, backend |-> index,
                    out |-> Run(tool.v, q, n, index)]
    /\ UNCHANGED << tool, setup, connects, index >>
    /\ UNCHANGED runVars
    /\ UNCHANGED auxVars

\* the caller takes the response (or the exception); calls are synchronous
ToolReturn ==
    /\ lastCall # NoCall
    /\ lastCall' = NoCall
    /\ UNCHANGED << tool, setup, connects, index >>
    /\ UNCHANGED runVars
    /\ UNCHANGED auxVars

NextTool ==
    \/ \E s \in SetupOutcomes : Construct(s)
    \/ \E b \in BackendReplies : IndexChange(b)
    \/ \E q \in Queries, n \in Nums : ToolCall(q, n)
    \/ \E q \in Queries, n \in Nums : RunDirect(q, n)
    \/ ToolReturn

SpecTool == InitTool /\ [][NextTool]_vars

\* ------------------------------------------- the tool and a caller's memory
\* the caller takes the response and keeps it with the query it asked
ToolReturnKept ==
    /\ lastCall # NoCall
    /\ memo' = Some([query |-> lastCall.query, out |-> lastCall.out])
    /\ lastCall' = NoCall
    /\ UNCHANGED << tool, setup, connects, index >>
    /\ UNCHANGED runVars
    /\ UNCHANGED << runs, writers >>

\* _run(query): num_results is left at its default
DemoNums == {DefaultNumResults}

NextDemo ==
    \/ \E s \in SetupOutcomes : Construct(s)
    \/ \E b \in BackendReplies : IndexChange(b)
    \/ \E q \in Queries, n \in DemoNums : RunDirect(q, n)
    \/ ToolReturn
    \/ ToolReturnKept

SpecDemo == InitTool /\ [][NextDemo]_vars

\* ------------------------------------------------------------ the pipeline
\* main up to line 176: the theme is resolved, or main exits with status 1
MainStart(argTheme, interactive, inputLine, outPath) ==
    /\ pc = "idle"
    /\ caller' = "main"
    /\ argsOutput' = outPath
    /\ LET t == ResolveTheme(argTheme, interactive, inputLine) IN
       IF t.some
       THEN /\ theme' = t
            /\ pc' = "main_ready"
            /\ exitCode' = exitCode
       ELSE /\ theme' = Some(<<>>)
            /\ pc' = "exited"
            /\ exitCode' = "1"
    /\ UNCHANGED << started, results, stage, cause, returned, files >>
    /\ UNCHANGED toolVars
    /\ UNCHANGED auxVars

\* main, lines 206-210: the import of run_crew fails
MainImportError ==
    /\ pc = "main_ready"
    /\ pc' = "exited"
    /\ cause' = "ImportError"
    /\ exitCode' = "1"
    /\ UNCHANGED << caller, theme, started, results, stage, returned,
                    files, argsOutput >>
    /\ UNCHANGED toolVars
    /\ UNCHANGED auxVars

\* run_crew up to kickoff: SeinfeldScriptCrew() constructs the tool
RunCrewEnter(s) ==
    /\ tool' = Some(NewTool(s))
    /\ setup' = s
    /\ connects' = connects + 1
    /\ pc' = "kickoff"
    /\ UNCHANGED << index, lastCall >>
    /\ UNCHANGED << started, results, stage, cause, returned, files,
                    argsOutput, exitCode >>
    /\ UNCHANGED auxVars

\* main calls run_crew(theme)
MainRunCrew(s) ==
    /\ pc = "main_ready"
    /\ RunCrewEnter(s)
    /\ UNCHANGED << caller, theme >>

\* run_crew(t) called by another program
ApiRunCrew(t, s) ==
    /\ pc = "idle"
    /\ caller' = "api"
    /\ theme' = Some(t)
    /\ RunCrewEnter(s)

\* crew() or kickoff raises before any task (get_llm, the configuration)
CrewSetupFail ==
    /\ pc = "kickoff"
    /\ started = <<>>
    /\ pc' = "raised"
    /\ cause' = "ConfigError"
    /\ UNCHANGED << caller, theme, started, results, stage, returned,
                    files, argsOutput, exitCode >>
    /\ UNCHANGED toolVars
    /\ UNCHANGED auxVars

\* kickoff starts the next task with the outputs so far as its context
StageStart ==
    /\ pc = "kickoff"
    /\ stage = "idle"
    /\ NextTaskIndex(results) \in DOMAIN Tasks
    /\ started' = Append(started, [name |-> Tasks[NextTaskIndex(results)],
                                   context |-> results])
    /\ stage' = "running"
    /\ UNCHANGED << pc, caller, theme, results, cause, returned, files, argsOutput,
                    exitCode >>
    /\ UNCHANGED toolVars
    /\ UNCHANGED auxVars

\* the agent of the running task uses the tool
StageRetrieve(q, n) ==
    /\ pc = "kickoff"
    /\ stage = "running"
    /\ lastCall = NoCall
    /\ lastCall' = [via |-> "schema", query |-> q, num_results |-> n, backend |-> index,
                    out |-> Invoke(tool.v, q, n, index)]
    /\ UNCHANGED << tool, setup, connects, index >>
    /\ UNCHANGED << pc, caller, theme, started, results, stage, cause, returned,
                    files, argsOutput, exitCode >>
    /\ UNCHANGED auxVars

\* the running task ends with the text the backend gave; a task with an
\* output_file writes it there
StageFinish(text) ==
    /\ pc = "kickoff"
    /\ stage = "running"
    /\ lastCall = NoCall
    /\ LET name == started[Len(started)].name IN
       /\ results' = Append(results, [stage_name |-> name, content |-> text])
       /\ files' = IF TaskOutputFile(name).some
                   THEN [files EXCEPT ![TaskOutputFile(name).v[1]] = Some(text)]
                   ELSE files
    /\ stage' = "idle"
    /\ UNCHANGED << pc, caller, theme, started, cause, returned,
                    argsOutput, exitCode >>
    /\ UNCHANGED toolVars
    /\ UNCHANGED auxVars

\* the exception of the running task is noted and the task is run again
StageFailRetried(c) ==
    /\ pc = "kickoff"
    /\ stage = "running"
    /\ lastCall = NoCall
    /\ stage' = "idle"
    /\ cause' = c
    /\ UNCHANGED << pc, caller, theme, started, results, returned, files,
                    argsOutput, exitCode >>
    /\ UNCHANGED toolVars
    /\ UNCHANGED auxVars

\* the running task raises: the exception leaves kickoff and run_crew
StageFail(c) ==
    /\ pc = "kickoff"
    /\ stage = "running"
    /\ lastCall = NoCall
    /\ stage' = "failed"
    /\ cause' = c
    /\ pc' = "raised"
    /\ UNCHANGED << caller, theme, started, results, returned, files,
                    argsOutput, exitCode >>
    /\ UNCHANGED toolVars
    /\ UNCHANGED auxVars

\* kickoff is over: run_crew returns result.raw
RunCrewReturn ==
    /\ pc = "kickoff"
    /\ stage = "idle"
    /\ NextTaskIndex(results) \notin DOMAIN Tasks
    /\ returned' = Some(CrewOutputRaw(results))
    /\ pc' = "returned"
    /\ UNCHANGED << caller, theme, started, results, stage, cause, files,
                    argsOutput, exitCode >>
    /\ UNCHANGED toolVars
    /\ UNCHANGED auxVars

\* main, lines 187-204: the script is saved to args.output
MainSave ==
    /\ caller = "main"
    /\ pc = "returned"
    /\ files' = [files EXCEPT ![argsOutput] = Some(SavedScript(theme.v, returned.v))]
    /\ pc' = "done"
    /\ exitCode' = "0"
    /\ UNCHANGED << caller, theme, started, results, stage, cause,
                    returned, argsOutput >>
    /\ UNCHANGED toolVars
    /\ UNCHANGED auxVars

\* main, lines 212-218: the exception is printed and main exits with status 1
MainError ==
    /\ caller = "main"
    /\ pc = "raised"
    /\ pc' = "exited"
    /\ exitCode' = "1"
    /\ UNCHANGED << caller, theme, started, results, stage, cause,
                    returned, files, argsOutput >>
    /\ UNCHANGED toolVars
    /\ UNCHANGED auxVars

\* the state of the run, in the terms of the pipeline's state machine
RunState ==
    CASE pc \in {"idle", "main_ready"} -> "NotStarted"
      [] pc = "kickoff" -> "Running"
      [] pc \in {"returned", "done"} -> "Completed"
      [] pc = "raised" -> "Failed"
      [] pc = "exited" -> IF cause = "none" THEN "Rejected" ELSE "Failed"

\* the queries and counts the agents of a run use
StageQueries == {<<" ">>} \cup (IF theme.some THEN {theme.v} ELSE {})
StageNums == {DefaultNumResults}

Next ==
    \/ \E a \in OptThemes, i \in BOOLEAN, l \in Themes, o \in Paths : MainStart(a, i, l, o)
    \/ MainImportError
    \/ \E s \in SetupOutcomes : MainRunCrew(s)
    \/ \E t \in Themes, s \in SetupOutcomes : ApiRunCrew(t, s)
    \/ CrewSetupFail
    \/ StageStart
    \/ \E q \in StageQueries, n \in StageNums : StageRetrieve(q, n)
    \/ ToolReturn
    \/ \E text \in LLMOutputs : StageFinish(text)
    \/ \E c \in StageCauses : StageFail(c)
    \/ RunCrewReturn
    \/ MainSave
    \/ MainError

Spec == Init /\ [][Next]_vars

\* ------------------------------------------------------------- the pipeline
StageOrder == << "analyze_theme", "design_plot_structure", "develop_character_voices",
                 "write_script_scenes", "review_and_polish" >>
StageNames(rs) == [i \in DOMAIN rs |-> rs[i].stage_name]

\* C1: the five stages start in the configured order, each at most once;
\* stage i starts with exactly the results of the stages before it, which are
\* the results the run keeps; a completed run has exactly the five results,
\* in the configured order.
C1_StagesInOrder ==
    /\ Len(started) <= Len(StageOrder)
    /\ \A i \in DOMAIN started :
          /\ started[i].name = StageOrder[i]
          /\ StageNames(started[i].context) = SubSeq(StageOrder, 1, i - 1)
          /\ \A j \in 1..(i - 1) : j \in DOMAIN results /\ started[i].context[j] = results[j]
    /\ Len(results) <= Len(started)
    /\ Len(started) <= Len(results) + 1
    /\ StageNames(results) = SubSeq(StageOrder, 1, Len(results))
    /\ RunState = "Completed" => StageNames(results) = StageOrder

C1_Witness ==
    /\ RunState = "Completed"
    /\ Len(started) = 5
    /\ Len(started[5].context) = 4

C3_NeverEmpty ==
    (theme.some /\ theme.v # <<>> /\ returned.some) => returned.v # <<>>

\* C4: with an empty theme no stage starts and no retrieval call is made.
C4_EmptyThemeRejected ==
    (theme.some /\ theme.v = <<>>) => (started = <<>> /\ results = <<>> /\ lastCall = NoCall)

\* C5: what run_crew returns is the content of the result of the final
\* stage, review_and_polish.
C5_ReturnsFinalContent ==
    returned.some =>
        /\ Len(results) = Len(StageOrder)
        /\ results[Len(StageOrder)].stage_name = "review_and_polish"
        /\ returned.v = results[Len(StageOrder)].content

C5_Witness ==
    /\ returned.some
    /\ returned.v # <<>>
    /\ \A i \in 1..4 : results[i].content # returned.v

\* ----------------------------------------------------------------- the tool
\* the call in progress has reached _run
RunExecuted ==
    \/ lastCall.via = "_run"
    \/ lastCall.via = "schema" /\ SeinfeldSearchInput(lastCall.query, lastCall.num_results).ok

IsDemo(out) == out.kind = "return" /\ out.value # <<>> /\ Head(out.value) = DemoHeader

\* C6: _run never raises; a failing search is answered with the fallback, and
\* an empty query with the fallback for the default topic.
C6_RunNeverRaises ==
    RunExecuted =>
        /\ lastCall.out.kind = "return"
        /\ lastCall.backend.error => IsDemo(lastCall.out)
        /\ lastCall.query = <<>> =>
               lastCall.out = Return(Replace(DemoTemplate, "[topic]", <<"this">>))

\* C7: the connection is set up once, at construction; after a failed setup
\* every call that reaches _run returns the fallback.
C7_DegradedForever ==
    /\ connects <= 1
    /\ tool.some => connects = 1
    /\ (RunExecuted /\ setup # "none") => IsDemo(lastCall.out)

\* C8: after a successful setup, a search with matches returns those matches.
C8_NormalMode ==
    (RunExecuted /\ setup = "none" /\ ~lastCall.backend.error
        /\ lastCall.backend.hits > 0 /\ lastCall.num_results >= 1) =>
        lastCall.out = Return(FormatResults(
            SimilaritySearch(lastCall.query, lastCall.num_results, lastCall.backend),
            lastCall.query))

\* C9: a response to a call with result_count in 1..10 carries at most
\* result_count passages.
C9_AtMostResultCount ==
    (RunExecuted /\ lastCall.num_results \in MinResults..MaxResults
        /\ lastCall.out.kind = "return") =>
        PassageCount(lastCall.out.value) <= lastCall.num_results

\* the same call with another result_count
SameCall(n) ==
    IF lastCall.via = "schema"
    THEN Invoke(tool.v, lastCall.query, n, lastCall.backend)
    ELSE Run(tool.v, lastCall.query, n, lastCall.backend)

\* C10 as stated: a call with result_count below 1 gives what the same call
\* gives with 1, and above 10 what it gives with 10.
C10_Clamped ==
    lastCall # NoCall =>
        /\ lastCall.num_results < MinResults => lastCall.out = SameCall(MinResults)
        /\ lastCall.num_results > MaxResults => lastCall.out = SameCall(MaxResults)

\* C10 as amended: a call through the tool's input schema with result_count
\* outside 1..10 is rejected with a validation error and never reaches _run;
\* with result_count in 1..10 it gives what _run gives for that result_count.
C10_OutOfRangeRejected ==
    lastCall.via = "schema" =>
        /\ lastCall.num_results \notin MinResults..MaxResults =>
               lastCall.out = Raise("ValidationError")
        /\ lastCall.num_results \in MinResults..MaxResults =>
               lastCall.out = Run(tool.v, lastCall.query, lastCall.num_results,
                                  lastCall.backend)

C10_Witness ==
    /\ lastCall.via = "schema"
    /\ lastCall.num_results = MaxResults + 1
    /\ lastCall.out = Raise("ValidationError")

\* ------------------------------------------------------- concurrent runs
\* the themes and the setup outcomes of the concurrent runs
ConcThemes == Themes \ {<<>>}
ConcSetups == {"none", "import", "wait_until_ready"}
\* what the text-generation backend answers in a run with theme t
ConcOutputs(t) == {<<"script for ">> \o t}

\* run_crew_async(t): SeinfeldScriptCrew() constructs a tool of its own, then
\* kickoff_async starts; the other run, if started, has another theme
ConcRunCrew(r, t, s) ==
    /\ runs[r].pc = "idle"
    /\ \A o \in RunIds \ {r} : runs[o].pc # "idle" => runs[o].theme # t
    /\ connects' = connects + 1
    /\ runs' = [runs EXCEPT ![r] = [@ EXCEPT !.pc = "kickoff", !.theme = t,
                    !.tool = Some([id |-> connects + 1, attrs |-> NewTool(s)])]]
    /\ UNCHANGED << tool, setup, index, lastCall, memo, writers >>
    /\ UNCHANGED runVars

\* the kickoff of run r starts its next task; the agent gets the tool of
\* the crew of run r
ConcStageStart(r) ==
    /\ runs[r].pc = "kickoff"
    /\ runs[r].stage = "idle"
    /\ NextTaskIndex(runs[r].outputs) \in DOMAIN Tasks
    /\ runs' = [runs EXCEPT ![r] = [@ EXCEPT !.stage = "running",
                    !.started = Append(@, [name |-> Tasks[NextTaskIndex(runs[r].outputs)],
                                           tool |-> runs[r].tool.v.id])]]
    /\ UNCHANGED << memo, writers >>
    /\ UNCHANGED toolVars
    /\ UNCHANGED runVars

\* the running task of run r ends; a task with an output_file writes it
ConcStageFinish(r, text) ==
    /\ runs[r].pc = "kickoff"
    /\ runs[r].stage = "running"
    /\ LET name == runs[r].started[Len(runs[r].started)].name
           out == TaskOutputFile(name) IN
       /\ runs' = [runs EXCEPT ![r] = [@ EXCEPT !.stage = "idle",
                       !.outputs = Append(@, [stage_name |-> name, content |-> text])]]
       /\ files' = IF out.some THEN [files EXCEPT ![out.v[1]] = Some(text)] ELSE files
       /\ writers' = IF out.some THEN [writers EXCEPT ![out.v[1]] = @ \cup {r}]
                     ELSE writers
    /\ UNCHANGED << pc, caller, theme, started, results, stage, cause, returned,
                    argsOutput, exitCode >>
    /\ UNCHANGED memo
    /\ UNCHANGED toolVars

\* the running task of run r raises: the exception ends the run
ConcStageFail(r) ==
    /\ runs[r].pc = "kickoff"
    /\ runs[r].stage = "running"
    /\ runs' = [runs EXCEPT ![r] = [@ EXCEPT !.stage = "failed", !.pc = "raised"]]
    /\ UNCHANGED << memo, writers >>
    /\ UNCHANGED toolVars
    /\ UNCHANGED runVars

\* the kickoff of run r is over: the awaited result is its raw output
ConcReturn(r) ==
    /\ runs[r].pc = "kickoff"
    /\ runs[r].stage = "idle"
    /\ NextTaskIndex(runs[r].outputs) \notin DOMAIN Tasks
    /\ runs' = [runs EXCEPT ![r] = [@ EXCEPT !.pc = "returned",
                    !.result = Some(CrewOutputRaw(runs[r].outputs))]]
    /\ UNCHANGED << memo, writers >>
    /\ UNCHANGED toolVars
    /\ UNCHANGED runVars

NextConc ==
    \/ \E r \in RunIds, t \in ConcThemes, s \in ConcSetups : ConcRunCrew(r, t, s)
    \/ \E r \in RunIds : ConcStageStart(r)
    \/ \E r \in RunIds : \E text \in ConcOutputs(runs[r].theme) : ConcStageFinish(r, text)
    \/ \E r \in RunIds : ConcStageFail(r)
    \/ \E r \in RunIds : ConcReturn(r)

SpecConc == Init /\ [][NextConc]_vars

\* C12: every run has one tool instance of its own, given to each of its
\* stages and to no stage of the other run, and no file is written by more
\* than one run.
C12_RunIsolation ==
    /\ \A r \in RunIds : \A i \in DOMAIN runs[r].started :
          runs[r].tool.some /\ runs[r].started[i].tool = runs[r].tool.v.id
    /\ \A r \in RunIds, o \in RunIds :
          (r # o /\ runs[r].tool.some /\ runs[o].tool.some) =>
              runs[r].tool.v.id # runs[o].tool.v.id
    /\ \A p \in Paths : Cardinality(writers[p]) <= 1

\* the topic C11 names for a query: its first whitespace-delimited token, or
\* the default when the query has none
NamedTopic(q) == IF Split(q) = <<>> THEN <<"this">> ELSE Split(q)[1]

\* C11: on a tool whose setup failed, a call gives the fixed template with
\* "[topic]" replaced by the first token of the query, and gives what an
\* earlier call with the same query gave, whatever was called in between.
C11_DemoDeterministic ==
    (RunExecuted /\ setup # "none") =>
        /\ lastCall.out = Return(Replace(DemoTemplate, "[topic]", NamedTopic(lastCall.query)))
        /\ (memo.some /\ memo.v.query = lastCall.query) => lastCall.out = memo.v.out

====
